---- MODULE Spec2Model ----
(***************************************************************************)
(* Model of the quiz coordinator of src/src/App.tsx: the shared store      *)
(* (rounds, answers, players), the GM page, the participant page and the   *)
(* room state hook (useRoomCore) they share.                               *)
(*                                                                         *)
(* A store request is in flight from the click that issues it until the    *)
(* step at which the store executes it and its reply resumes the handler   *)
(* (one step: the linearisation point of the request).  A handler reads    *)
(* the values of the render in which it was invoked, so a request carries  *)
(* the values its closure captured.  A refresh (refreshRounds,             *)
(* refreshRanks) is pending from the write or notification that triggers   *)
(* it until the step at which its result is applied to the local state.    *)
(***************************************************************************)
EXTENDS Integers, Sequences, FiniteSets, Bags, TLC

\* ---------------------------------------------------------------- bounds
MaxCalls == 2       \* store requests in flight at once, all clients together
MaxAwards == 2      \* times the scoring operation may apply to one round
MaxRpc == 2         \* scoring calls one GM session may issue for one round

GMs == {"g1", "g2"}
Players == {"p1", "p2", "p3"}
Clients == GMs \cup Players

\* a scenario: the sessions that are open, the rounds created, the requests
\* in flight at once, the choices the GM marks as correct; no request fails
Scenario(cl, nr, nc, cc) ==
    [clients |-> cl, rounds |-> nr, calls |-> nc, correct |-> cc, fails |-> 0]
\* the scenario s in which the store answers up to n requests with an error
WithFailures(s, n) == [s EXCEPT !.fails = n]

\* ------------------------------------------------------------- constants
Choices == {"A", "B", "C", "D"}
ChoiceInputs == {"A", "B"}          \* the choices the participants pick
Statuses == {"ready", "open", "closed", "scored"}
Null == "null"
W1 == 100
W2 == 70
WOther == 20

VARIABLES
    scn,            \* the scenario explored: the sessions open and the bounds in force
    dbRounds,       \* table rounds: sequence of rows, row i has id i
    dbAnswers,      \* table answers: rows in order of created_at
    total_score,    \* table players: total_score of each participant
    calls,          \* bag of store requests in flight
    rounds,         \* useRoomCore.rounds of each client
    current,        \* useRoomCore.current of each client
    ranks,          \* useRoomCore.ranks of each client
    pendRounds,     \* a refreshRounds of the client is outstanding
    pendRanks,      \* round ids with an outstanding refreshRanks of the client
    isScoring,      \* GMPage.isScoring
    weights,        \* GMPage.w1, w2, wOther
    fetches,        \* results of rounds queries on their way back to each client
    myAnswerChoice, \* PlayerPage.myAnswerChoice
    prevRoundId,    \* PlayerPage.prevRoundId
    revealActive,   \* revealActive of each page
    revealShown,    \* revealShown of each page
    revealTimer,    \* revealTimer ref of each page: the interval it refers to
    orphanTimers,   \* intervals still running that no ref refers to
    applied,        \* history: times the scoring operation applied per round
    rpcIssued,      \* history: scoring calls issued per GM session and round
    alerts,         \* alert dialogs reporting a store error, shown per page
    failed          \* history: bag of the operations the store answered with an error

storeVars == <<dbRounds, dbAnswers, total_score>>
coreVars == <<rounds, current, ranks, pendRounds, pendRanks>>
revealVars == <<revealActive, revealShown, revealTimer, orphanTimers>>
vars == <<scn, dbRounds, dbAnswers, total_score, calls, rounds, current, ranks,
          pendRounds, pendRanks, isScoring, myAnswerChoice, prevRoundId,
          revealActive, revealShown, revealTimer, orphanTimers, applied,
          rpcIssued, alerts, failed, weights, fetches>>
\* what only a failing request, an edit of the weights or a rounds query whose
\* result is delivered apart from its execution changes
quietVars == <<scn, alerts, failed, weights, fetches>>

\* the ids of the rounds a scenario creates
RoundIds == 1..2

\* ------------------------------------------------------------------ types
\* type Round as a client holds it: the fields the pages read (opened_at and
\* reveal_at are never read by a client); current = null is the row with id 0
NoRound == [id |-> 0, index_no |-> 0, status |-> "none", correct_choice |-> Null,
            reveal_started |-> FALSE]
Fetched(row) == [id |-> row.id, index_no |-> row.index_no, status |-> row.status,
                 correct_choice |-> row.correct_choice,
                 reveal_started |-> row.reveal_started]

\* revealTimer.current = null, and the interval a non-null ref refers to
NoTimer == [state |-> "null", len |-> 0]
LiveTimer(n) == [state |-> "live", len |-> n]
DeadTimer == [state |-> "dead", len |-> 0]

Min(a, b) == IF a < b THEN a ELSE b

\* created_at / opened_at: the store's clock advances with every answer row
Now == Len(dbAnswers)

\* a store request: client, operation, round id, choice, number, flag, and
\* the weights a scoring call passes
NoWeights == <<0, 0, 0>>
Call(c, op, rid, ch, n, b) ==
    [c |-> c, op |-> op, rid |-> rid, ch |-> ch, n |-> n, b |-> b, w |-> NoWeights]

InFlight == BagCardinality(calls)
Issue(call) == calls' = calls (+) SetToBag({call})
Done(call) == calls' = calls (-) SetToBag({call})
CallsOf(op) == {k \in BagToSet(calls) : k.op = op}

Active(c) == c \in scn.clients

\* the state of the pages after construction
InitLocal ==
    /\ rounds = [c \in Clients |-> <<>>]
    /\ current = [c \in Clients |-> NoRound]
    /\ ranks = [c \in Clients |-> <<>>]
    /\ pendRanks = [c \in Clients |-> {}]
    /\ isScoring = [g \in GMs |-> FALSE]
    /\ weights = [g \in GMs |-> <<W1, W2, WOther>>]
    /\ fetches = [c \in Clients |-> {}]
    /\ myAnswerChoice = [p \in Players |-> Null]
    /\ prevRoundId = [p \in Players |-> 0]
    /\ revealActive = [c \in Clients |-> FALSE]
    /\ revealShown = [c \in Clients |-> 0]
    /\ revealTimer = [c \in Clients |-> NoTimer]
    /\ orphanTimers = [c \in Clients |-> {}]
    /\ applied = [r \in RoundIds |-> 0]
    /\ rpcIssued = [g \in GMs |-> [r \in RoundIds |-> 0]]
    /\ alerts = [c \in Clients |-> 0]
    /\ failed = EmptyBag

\* a room that has just been created: no round, no answer
InitState ==
    /\ dbRounds = <<>>
    /\ dbAnswers = <<>>
    /\ total_score = [p \in Players |-> 0]
    /\ calls = EmptyBag
    /\ pendRounds = [c \in Clients |-> FALSE]
    /\ InitLocal

\* ------------------------------------------------------------ the store
\* .from('rounds').select('*').order('index_no'): the rows in ascending
\* index_no; rows with equal index_no come in an order the store chooses
RoundsQuery ==
    LET n == Len(dbRounds)
        perms == {f \in [1..n -> 1..n] : \A i, j \in 1..n : i # j => f[i] # f[j]}
    IN {[i \in 1..n |-> Fetched(dbRounds[f[i]])] : f \in
          {f \in perms : \A i, j \in 1..n :
              i < j => dbRounds[f[i]].index_no <= dbRounds[f[j]].index_no}}

\* view v_round_rank for one round: the answers whose choice is the round's
\* correct_choice, in ascending elapsed time (created_at - opened_at), which
\* within one round is the order of created_at
RankView(rid) ==
    LET IsRanked(a) == /\ a.round_id = rid
                       /\ rid \in 1..Len(dbRounds)
                       /\ dbRounds[rid].correct_choice # Null
                       /\ a.choice = dbRounds[rid].correct_choice
    IN SelectSeq(dbAnswers, IsRanked)

\* uniqueness constraint of answers on (round_id, player_id)
HasAnswer(rid, p) == \E i \in 1..Len(dbAnswers) :
    dbAnswers[i].round_id = rid /\ dbAnswers[i].player_id = p

StoredChoice(rid, p) ==
    LET i == CHOOSE i \in 1..Len(dbAnswers) :
                 dbAnswers[i].round_id = rid /\ dbAnswers[i].player_id = p
    IN dbAnswers[i].choice

\* points of rank k (1-based) under the weights w: p_first, p_second, p_other
Award(k, w) == IF k = 1 THEN w[1] ELSE IF k = 2 THEN w[2] ELSE w[3]

\* rpc apply_scores_for_round: the totals after the award to the ranked rows
ScoresAfterAward(rid, w) ==
    LET rk == RankView(rid)
        Gain(p) == IF \E k \in 1..Len(rk) : rk[k].player_id = p
                   THEN Award(CHOOSE k \in 1..Len(rk) : rk[k].player_id = p, w)
                   ELSE 0
    IN [p \in Players |-> total_score[p] + Gain(p)]

\* every subscribed client re-fetches the rounds after a change of the table
NotifyRounds == pendRounds' = [c \in Clients |-> Active(c)]

\* ------------------------------------------------------------ useRoomCore
\* a selection that never advances from a scored round
SelectCurrent_NoAdvance(prev, list) ==
    IF Len(list) = 0 THEN NoRound
    ELSE LET latest == list[Len(list)] IN
         IF prev = NoRound THEN latest
         ELSE IF ~ \E i \in 1..Len(list) : list[i].id = prev.id THEN latest
         ELSE list[CHOOSE i \in 1..Len(list) : list[i].id = prev.id]

\* the functional update of setCurrent in refreshRounds
SelectCurrent(prev, list) ==
    IF Len(list) = 0 THEN NoRound
    ELSE LET latest == list[Len(list)] IN
         IF prev = NoRound THEN latest
         ELSE IF ~ \E i \in 1..Len(list) : list[i].id = prev.id THEN latest
         ELSE LET same == list[CHOOSE i \in 1..Len(list) : list[i].id = prev.id] IN
              IF same.status = "scored" /\ latest.index_no > same.index_no
              THEN latest
              ELSE same

\* correctOnlyRanks of a render with current = cur and ranks = rk
CorrectOnlyRanks(cur, rk) ==
    LET IsCorrect(r) == r.choice = cur.correct_choice
    IN IF cur.correct_choice = Null THEN <<>> ELSE SelectSeq(rk, IsCorrect)

\* ---------------------------------------------------- effects of a render
\* GMPage effect on [current?.id]: reset the reveal when the round changes
GMRevealEffect(g, newCur) ==
    IF newCur.id # current[g].id
    THEN [active |-> FALSE, shown |-> 0, timer |-> NoTimer]
    ELSE [active |-> revealActive[g], shown |-> revealShown[g],
          timer |-> revealTimer[g]]

\* the interval the participant's reveal effect starts: its callback reads
\* correctOnlyRanks of the render in which the effect ran
PlayerTimerLen(p, newCur) == Len(CorrectOnlyRanks(newCur, ranks[p]))

\* PlayerPage effect on [current?.reveal_started]: the cleanup of the previous
\* run clears the interval (the ref keeps its value), then the body runs
PlayerRevealEffect(p, newCur) ==
    IF newCur.reveal_started = current[p].reveal_started
    THEN [active |-> revealActive[p], shown |-> revealShown[p],
          timer |-> revealTimer[p]]
    ELSE IF ~ newCur.reveal_started
    THEN [active |-> FALSE, shown |-> 0, timer |-> NoTimer]
    ELSE IF ~ revealActive[p]
    THEN [active |-> TRUE, shown |-> 1,
          timer |-> LiveTimer(PlayerTimerLen(p, newCur))]
    ELSE [active |-> revealActive[p], shown |-> revealShown[p],
          timer |-> IF revealTimer[p] = NoTimer THEN NoTimer ELSE DeadTimer]

RevealEffect(c, newCur) ==
    IF c \in GMs THEN GMRevealEffect(c, newCur) ELSE PlayerRevealEffect(c, newCur)

\* PlayerPage effect on [current?.id]: a new round id clears the pinned
\* choice and looks the participant's answer up
RoundChanged(p, newCur) == newCur.id # 0 /\ prevRoundId[p] # newCur.id

\* a render of client c with current = newCur, and the effects it runs
SetCurrent(c, newCur) ==
    LET e == RevealEffect(c, newCur) IN
    /\ current' = [current EXCEPT ![c] = newCur]
    /\ revealActive' = [revealActive EXCEPT ![c] = e.active]
    /\ revealShown' = [revealShown EXCEPT ![c] = e.shown]
    /\ revealTimer' = [revealTimer EXCEPT ![c] = e.timer]
    /\ UNCHANGED orphanTimers
    /\ IF c \in Players /\ RoundChanged(c, newCur)
       THEN /\ prevRoundId' = [prevRoundId EXCEPT ![c] = newCur.id]
            /\ myAnswerChoice' = [myAnswerChoice EXCEPT ![c] = Null]
       ELSE UNCHANGED <<prevRoundId, myAnswerChoice>>

\* the lookup request the participant's effect issues on a new round id
LookupsOf(c, newCur) ==
    IF c \in Players /\ RoundChanged(c, newCur)
    THEN SetToBag({Call(c, "lookup", newCur.id, Null, 0, FALSE)})
    ELSE EmptyBag

\* the subscription effect of useRoomCore depends on [roomCode, current?.id]:
\* a render with another current id runs it again, and it calls refreshRounds
\* refreshRounds: setRounds(list), setCurrent(prev => ...), refreshRanks(latest)
\* refreshRounds after its query returned list
ApplyRounds(c, list) ==
    /\ rounds' = [rounds EXCEPT ![c] = list]
    /\ SetCurrent(c, SelectCurrent(current[c], list))
    /\ calls' = calls (+) LookupsOf(c, SelectCurrent(current[c], list))
    /\ pendRanks' = [pendRanks EXCEPT ![c] =
          IF Len(list) = 0 THEN @ ELSE @ \cup {list[Len(list)].id}]
    /\ UNCHANGED <<scn, alerts, failed, weights, storeVars, ranks, isScoring,
                   applied, rpcIssued>>

\* the render with another current id runs the subscription effect again
Resubscribes(c, list) == SelectCurrent(current[c], list).id # current[c].id

RefreshRounds(c) ==
    /\ pendRounds[c]
    /\ \E list \in RoundsQuery :
        /\ ApplyRounds(c, list)
        /\ pendRounds' = [pendRounds EXCEPT ![c] = Resubscribes(c, list)]
    /\ UNCHANGED fetches

\* refreshRanks(roundId): setRanks(rows of v_round_rank for the round)
RefreshRanks(c) ==
    \E rid \in pendRanks[c] :
        /\ ranks' = [ranks EXCEPT ![c] = RankView(rid)]
        /\ pendRanks' = [pendRanks EXCEPT ![c] = @ \ {rid}]
        /\ UNCHANGED <<quietVars, storeVars, calls, rounds, current, pendRounds, isScoring,
                       myAnswerChoice, prevRoundId, revealVars, applied, rpcIssued>>

\* ----------------------------------------------------------------- GMPage
\* the "new round" button is rendered, and newRound passes its check
NewRoundGuard(cur) == ~ (cur # NoRound /\ cur.status # "scored")

NewRoundsInFlight ==
    BagCardinality([k \in {k \in BagToSet(calls) : k.op \in {"nextIndexNo", "insertRound"}}
                      |-> calls[k]])

\* newRound, up to the first request: await nextIndexNo()
NewRoundClick(g) ==
    /\ NewRoundGuard(current[g])
    /\ InFlight < scn.calls
    /\ Len(dbRounds) + NewRoundsInFlight < scn.rounds
    /\ Issue(Call(g, "nextIndexNo", 0, Null, 0, FALSE))
    /\ UNCHANGED <<quietVars, storeVars, coreVars, isScoring, myAnswerChoice, prevRoundId,
                   revealVars, applied, rpcIssued>>

\* nextIndexNo: the highest index_no of the room plus one, 1 for the first
NextIndex ==
    IF Len(dbRounds) = 0 THEN 1
    ELSE (CHOOSE m \in {dbRounds[i].index_no : i \in 1..Len(dbRounds)} :
            \A i \in 1..Len(dbRounds) : dbRounds[i].index_no <= m) + 1

\* the store answers nextIndexNo; newRound goes on to the insert
NextIndexNo(k) ==
    /\ k.op = "nextIndexNo"
    /\ calls' = (calls (-) SetToBag({k}))
                  (+) SetToBag({Call(k.c, "insertRound", 0, Null, NextIndex, FALSE)})
    /\ UNCHANGED <<quietVars, storeVars, coreVars, isScoring, myAnswerChoice, prevRoundId,
                   revealVars, applied, rpcIssued>>

\* the row newRound inserts
NewRow(idx) == [id |-> Len(dbRounds) + 1, index_no |-> idx, status |-> "ready",
                correct_choice |-> Null, reveal_started |-> FALSE, opened_at |-> -1]

\* the store inserts the round; newRound does setCurrent(data), refreshRounds()
InsertRound(k) ==
    /\ k.op = "insertRound"
    /\ dbRounds' = Append(dbRounds, NewRow(k.n))
    /\ SetCurrent(k.c, Fetched(NewRow(k.n)))
    /\ NotifyRounds
    /\ Done(k)
    /\ UNCHANGED <<quietVars, dbAnswers, total_score, rounds, ranks, pendRanks, isScoring,
                   applied, rpcIssued>>

\* the "open" button is rendered (openRound itself only requires a current round)
OpenRoundGuard(cur) == cur # NoRound /\ cur.status = "ready"

OpenRoundClick(g) ==
    /\ OpenRoundGuard(current[g])
    /\ InFlight < scn.calls
    /\ Issue(Call(g, "openRound", current[g].id, Null, 0, FALSE))
    /\ UNCHANGED <<quietVars, storeVars, coreVars, isScoring, myAnswerChoice, prevRoundId,
                   revealVars, applied, rpcIssued>>

\* the update of openRound: .update({status, opened_at, reveal_started}).eq('id')
OpenedRow(row) == [row EXCEPT !.status = "open", !.opened_at = Now,
                              !.reveal_started = FALSE]

OpenRoundExec(k) ==
    /\ k.op = "openRound"
    /\ dbRounds' = [dbRounds EXCEPT ![k.rid] = OpenedRow(@)]
    /\ NotifyRounds
    /\ Done(k)
    /\ UNCHANGED <<quietVars, dbAnswers, total_score, rounds, current, ranks, pendRanks,
                   isScoring, myAnswerChoice, prevRoundId, revealVars, applied,
                   rpcIssued>>

\* the "close" button is rendered
CloseRoundGuard(cur) == cur # NoRound /\ cur.status = "open"

CloseRoundClick(g) ==
    /\ CloseRoundGuard(current[g])
    /\ InFlight < scn.calls
    /\ Issue(Call(g, "closeRound", current[g].id, Null, 0, FALSE))
    /\ UNCHANGED <<quietVars, storeVars, coreVars, isScoring, myAnswerChoice, prevRoundId,
                   revealVars, applied, rpcIssued>>

\* a closeRound that writes the final status itself
ClosedRow_Scored(row) == [row EXCEPT !.status = "scored"]

\* the update of closeRound: .update({status: 'closed'}).eq('id')
ClosedRow(row) == [row EXCEPT !.status = "closed"]

CloseRoundExec(k) ==
    /\ k.op = "closeRound"
    /\ dbRounds' = [dbRounds EXCEPT ![k.rid] = ClosedRow(@)]
    /\ NotifyRounds
    /\ Done(k)
    /\ UNCHANGED <<quietVars, dbAnswers, total_score, rounds, current, ranks, pendRanks,
                   isScoring, myAnswerChoice, prevRoundId, revealVars, applied,
                   rpcIssued>>

\* the panel with the correct-choice buttons is rendered
PanelShown(cur) ==
    /\ cur # NoRound
    /\ (cur.status = "closed" \/ cur.correct_choice # Null \/ cur.status = "scored")

\* the early return of setCorrect: if (!current) return
SetCorrectGuard(cur) == cur # NoRound

\* setCorrect up to the update
SetCorrectCall(g) ==
    /\ SetCorrectGuard(current[g])
    /\ InFlight < scn.calls
    /\ \E ch \in scn.correct :
          Issue(Call(g, "setCorrect", current[g].id, ch, 0, FALSE))
    /\ UNCHANGED <<quietVars, storeVars, coreVars, isScoring, myAnswerChoice, prevRoundId,
                   revealVars, applied, rpcIssued>>

\* a click on one of the correct-choice buttons of the panel
SetCorrectClick(g) == PanelShown(current[g]) /\ SetCorrectCall(g)

\* a setCorrect that also closes the round
CorrectRow_Closes(row, c) == [row EXCEPT !.correct_choice = c, !.status = "closed"]

\* the update of setCorrect: .update({correct_choice: c}).eq('id')
CorrectRow(row, c) == [row EXCEPT !.correct_choice = c]

SetCorrectExec(k) ==
    /\ k.op = "setCorrect"
    /\ dbRounds' = [dbRounds EXCEPT ![k.rid] = CorrectRow(@, k.ch)]
    /\ NotifyRounds
    /\ Done(k)
    /\ UNCHANGED <<quietVars, dbAnswers, total_score, rounds, current, ranks, pendRanks,
                   isScoring, myAnswerChoice, prevRoundId, revealVars, applied,
                   rpcIssued>>

\* applyScores without its check of the local status
ApplyScoresGuard_NoStatus(cur, scoring) ==
    /\ cur # NoRound
    /\ cur.correct_choice # Null
    /\ ~ scoring

\* applyScores without its check of the correct choice
ApplyScoresGuard_NoCorrect(cur, scoring) ==
    /\ cur # NoRound
    /\ cur.status # "scored"
    /\ ~ scoring

\* the three early returns of applyScores (the score button is disabled under
\* the same conditions)
ApplyScoresGuard(cur, scoring) ==
    /\ cur # NoRound
    /\ cur.correct_choice # Null
    /\ cur.status # "scored"
    /\ ~ scoring

\* applyScores up to the rpc: setIsScoring(true), rpc('apply_scores_for_round')
\* with the weights of the render that handled the click
ApplyScoresClick(g) ==
    /\ PanelShown(current[g])
    /\ ApplyScoresGuard(current[g], isScoring[g])
    /\ InFlight < scn.calls
    /\ rpcIssued[g][current[g].id] < MaxRpc
    /\ isScoring' = [isScoring EXCEPT ![g] = TRUE]
    /\ rpcIssued' = [rpcIssued EXCEPT ![g][current[g].id] = @ + 1]
    /\ Issue([Call(g, "applyScores", current[g].id, Null, 0, FALSE)
                 EXCEPT !.w = weights[g]])
    /\ UNCHANGED <<quietVars, storeVars, coreVars, myAnswerChoice, prevRoundId, revealVars,
                   applied>>

\* an applyScores that leaves isScoring as it is when the rpc has returned
ScoringAfterReturn_Stuck(scoring) == scoring

\* applyScores after the rpc returned: setIsScoring(false), then the refreshes
ScoringAfterReturn(scoring) == FALSE

\* rpc apply_scores_for_round: applies while the round is not scored, and is a
\* no-op on a scored round; then the rest of applyScores
ApplyScoresExec(k) ==
    /\ k.op = "applyScores"
    /\ IF dbRounds[k.rid].status # "scored"
       THEN /\ applied[k.rid] < MaxAwards
            /\ total_score' = ScoresAfterAward(k.rid, k.w)
            /\ dbRounds' = [dbRounds EXCEPT ![k.rid] = [@ EXCEPT !.status = "scored"]]
            /\ applied' = [applied EXCEPT ![k.rid] = @ + 1]
            /\ NotifyRounds
       ELSE /\ UNCHANGED <<total_score, dbRounds, applied>>
            /\ pendRounds' = [pendRounds EXCEPT ![k.c] = TRUE]
    /\ isScoring' = [isScoring EXCEPT ![k.c] = ScoringAfterReturn(@)]
    /\ Done(k)
    /\ UNCHANGED <<quietVars, dbAnswers, rounds, current, ranks, pendRanks, myAnswerChoice,
                   prevRoundId, revealVars, rpcIssued>>

\* the store answers request k with an error; the handler shows an alert
\* reporting it (shown) or returns without one, and sends nothing more
Fails(k, shown) ==
    /\ BagCardinality(failed) < scn.fails
    /\ failed' = failed (+) SetToBag({k.op})
    /\ alerts' = [alerts EXCEPT ![k.c] = IF shown THEN @ + 1 ELSE @]
    /\ Done(k)
    /\ UNCHANGED <<scn, weights, fetches>>

\* the rpc returns an error: nothing is applied; setIsScoring(false), then
\* applyScores alerts and returns before its refreshes
ApplyScoresFail(k) ==
    /\ k.op = "applyScores"
    /\ isScoring' = [isScoring EXCEPT ![k.c] = ScoringAfterReturn(@)]
    /\ rpcIssued' = [rpcIssued EXCEPT ![k.c][k.rid] = @ - 1]
    /\ Fails(k, TRUE)
    /\ UNCHANGED <<storeVars, coreVars, myAnswerChoice, prevRoundId, revealVars,
                   applied>>

\* the "start reveal" button is enabled, and startReveal passes its check
StartRevealGuard(cur, rk) ==
    /\ cur # NoRound
    /\ cur.correct_choice # Null
    /\ Len(rk) > 0
    /\ ~ cur.reveal_started

\* startReveal up to the update; startRevealLocal of the same render is what
\* the handler calls afterwards: it reads that render's correctOnlyRanks and
\* revealActive
StartRevealClick(g) ==
    /\ PanelShown(current[g])
    /\ StartRevealGuard(current[g], ranks[g])
    /\ InFlight < scn.calls
    /\ Issue(Call(g, "startReveal", current[g].id, Null,
                  Len(CorrectOnlyRanks(current[g], ranks[g])), revealActive[g]))
    /\ UNCHANGED <<quietVars, storeVars, coreVars, isScoring, myAnswerChoice, prevRoundId,
                   revealVars, applied, rpcIssued>>

\* startRevealLocal returns early without entries or when already active
StartLocalGuard(len, active) == ~ (len = 0 \/ active)

\* the update of startReveal, then startRevealLocal(): a new interval replaces
\* the ref; an interval the ref referred to keeps running
StartRevealExec(k) ==
    /\ k.op = "startReveal"
    /\ dbRounds' = [dbRounds EXCEPT ![k.rid] = [@ EXCEPT !.reveal_started = TRUE]]
    /\ NotifyRounds
    /\ Done(k)
    /\ IF StartLocalGuard(k.n, k.b)
       THEN /\ revealActive' = [revealActive EXCEPT ![k.c] = TRUE]
            /\ revealShown' = [revealShown EXCEPT ![k.c] = 1]
            /\ revealTimer' = [revealTimer EXCEPT ![k.c] = LiveTimer(k.n)]
            /\ orphanTimers' = [orphanTimers EXCEPT ![k.c] =
                  IF revealTimer[k.c].state = "live"
                  THEN @ \cup {revealTimer[k.c].len} ELSE @]
       ELSE UNCHANGED revealVars
    /\ UNCHANGED <<quietVars, dbAnswers, total_score, rounds, current, ranks, pendRanks,
                   isScoring, myAnswerChoice, prevRoundId, applied, rpcIssued>>

\* "view this round": setCurrent(r), refreshRanks(r.id); the new current id
\* runs the subscription effect again
SelectRound(g) ==
    \E i \in 1..Len(rounds[g]) :
        /\ rounds[g][i].id # current[g].id
        /\ SetCurrent(g, rounds[g][i])
        /\ pendRanks' = [pendRanks EXCEPT ![g] = @ \cup {rounds[g][i].id}]
        /\ pendRounds' = [pendRounds EXCEPT ![g] = TRUE]
        /\ UNCHANGED <<quietVars, storeVars, calls, rounds, ranks, isScoring,
                       applied, rpcIssued>>

\* ------------------------------------------------------- the reveal stepper
\* the interval callback: setRevealShown(s => min(s + 1, length)), and the
\* ref's interval is cleared once s + 1 reaches the length the callback read
TickShown(s, len) == Min(s + 1, len)
TickStops(s, len) == s + 1 >= len

\* a tick of the interval the ref refers to
Tick(c) ==
    /\ revealTimer[c].state = "live"
    /\ revealShown' = [revealShown EXCEPT ![c] = TickShown(@, revealTimer[c].len)]
    /\ revealTimer' = [revealTimer EXCEPT ![c] =
          IF TickStops(revealShown[c], revealTimer[c].len) THEN NoTimer ELSE @]
    /\ UNCHANGED <<quietVars, storeVars, calls, coreVars, isScoring, myAnswerChoice,
                   prevRoundId, revealActive, orphanTimers, applied, rpcIssued>>

\* a tick of an interval no ref refers to: it clears the ref's interval
OrphanTick(c) ==
    \E len \in orphanTimers[c] :
        /\ revealShown' = [revealShown EXCEPT ![c] = TickShown(@, len)]
        /\ revealTimer' = [revealTimer EXCEPT ![c] =
              IF TickStops(revealShown[c], len) THEN NoTimer ELSE @]
        /\ UNCHANGED <<quietVars, storeVars, calls, coreVars, isScoring, myAnswerChoice,
                       prevRoundId, revealActive, orphanTimers, applied, rpcIssued>>

\* showCountFromBottom
ShowCountFromBottom(c) == IF revealActive[c] THEN revealShown[c] ELSE 0

\* a reveal list rendered without looking at reveal_started
ListShown_NoGate(cur) == cur.correct_choice # Null

\* the reveal list is rendered only with a correct choice and reveal_started
ListShown(cur) == cur.correct_choice # Null /\ cur.reveal_started

\* the rows of the reveal list, and whether the row at 0-based idx is visible
RevealList(c) == CorrectOnlyRanks(current[c], ranks[c])
Visible(c, idx) ==
    /\ ListShown(current[c])
    /\ Len(RevealList(c)) - 1 - idx < ShowCountFromBottom(c)
VisibleCount(c) ==
    Cardinality({idx \in 0..(Len(RevealList(c)) - 1) : Visible(c, idx)})

\* -------------------------------------------------------------- PlayerPage
\* the early returns of answer (the buttons are disabled unless open)
AnswerGuard(cur, pinned) == cur # NoRound /\ cur.status = "open" /\ pinned = Null

AnswerClick(p) ==
    /\ AnswerGuard(current[p], myAnswerChoice[p])
    /\ InFlight < scn.calls
    /\ \E ch \in ChoiceInputs :
          Issue(Call(p, "answer", current[p].id, ch, 0, FALSE))
    /\ UNCHANGED <<quietVars, storeVars, coreVars, isScoring, myAnswerChoice, prevRoundId,
                   revealVars, applied, rpcIssued>>

\* answer pinning the choice before it looks at the error
PinAfterInsert_Always(ok, pinned, choice) == choice

\* answer after the insert returned: an error returns, success pins the choice
PinAfterInsert(ok, pinned, choice) == IF ok THEN choice ELSE pinned

\* the answers subscription: refreshRanks(current.id) on every client
NotifyAnswers ==
    pendRanks' = [c \in Clients |->
        IF Active(c) /\ current[c].id # 0
        THEN pendRanks[c] \cup {current[c].id} ELSE pendRanks[c]]

\* the store executes the insert under the uniqueness constraint; the reply
\* resumes answer unless the page was reloaded meanwhile (k.b)
AnswerExec(k) ==
    /\ k.op = "answer"
    /\ IF HasAnswer(k.rid, k.c)
       THEN UNCHANGED <<dbAnswers, pendRanks>>
       ELSE /\ dbAnswers' = Append(dbAnswers,
                  [round_id |-> k.rid, player_id |-> k.c, choice |-> k.ch])
            /\ NotifyAnswers
    /\ myAnswerChoice' = [myAnswerChoice EXCEPT ![k.c] =
          IF k.b THEN @ ELSE PinAfterInsert(~ HasAnswer(k.rid, k.c), @, k.ch)]
    /\ Done(k)
    /\ UNCHANGED <<quietVars, dbRounds, total_score, rounds, current, ranks, pendRounds,
                   isScoring, prevRoundId, revealVars, applied, rpcIssued>>

\* a lookup whose result is never pinned
PinAfterLookup_Never(found, stored, pinned) == pinned

\* if (data?.choice) setMyAnswerChoice(data.choice)
PinAfterLookup(found, stored, pinned) == IF found THEN stored ELSE pinned

\* the lookup of the participant's answer returns: if (data?.choice) pin it
LookupExec(k) ==
    /\ k.op = "lookup"
    /\ myAnswerChoice' = [myAnswerChoice EXCEPT ![k.c] =
          PinAfterLookup(HasAnswer(k.rid, k.c),
                         IF HasAnswer(k.rid, k.c) THEN StoredChoice(k.rid, k.c) ELSE Null,
                         @)]
    /\ Done(k)
    /\ UNCHANGED <<quietVars, storeVars, coreVars, isScoring, prevRoundId, revealVars,
                   applied, rpcIssued>>

\* requests in flight after a reload of p's page: a lookup's reply is dropped,
\* an insert already sent still reaches the store
CountOf(k) == IF k \in DOMAIN calls THEN calls[k] ELSE 0
CallsAfterReload(p) ==
    LET kept == {k \in BagToSet(calls) : k.c # p \/ k.op = "answer"}
        targets == {IF k.c = p THEN [k EXCEPT !.b = TRUE] ELSE k : k \in kept}
    IN [t \in targets |->
          IF t.c = p THEN CountOf(t) + CountOf([t EXCEPT !.b = FALSE]) ELSE calls[t]]

\* the participant reloads the page: the local state starts afresh, the
\* identity is restored from localStorage and the room is fetched again
Reload(p) ==
    /\ calls' = CallsAfterReload(p)
    /\ rounds' = [rounds EXCEPT ![p] = <<>>]
    /\ current' = [current EXCEPT ![p] = NoRound]
    /\ ranks' = [ranks EXCEPT ![p] = <<>>]
    /\ pendRounds' = [pendRounds EXCEPT ![p] = TRUE]
    /\ pendRanks' = [pendRanks EXCEPT ![p] = {}]
    /\ myAnswerChoice' = [myAnswerChoice EXCEPT ![p] = Null]
    /\ prevRoundId' = [prevRoundId EXCEPT ![p] = 0]
    /\ revealActive' = [revealActive EXCEPT ![p] = FALSE]
    /\ revealShown' = [revealShown EXCEPT ![p] = 0]
    /\ revealTimer' = [revealTimer EXCEPT ![p] = NoTimer]
    /\ orphanTimers' = [orphanTimers EXCEPT ![p] = {}]
    /\ fetches' = [fetches EXCEPT ![p] = {}]
    /\ UNCHANGED <<scn, alerts, failed, weights, storeVars, isScoring, applied,
                   rpcIssued>>

\* ------------------------------------------------------------ specification
\* Spec: the round lifecycle, scoring and answer submission.  The steps of
\* the reveal (refreshRanks, startReveal, the stepper) read and write only
\* ranks, the reveal state and reveal_started; SpecReveal explores them.
GMStep(g) ==
    \/ NewRoundClick(g)
    \/ OpenRoundClick(g)
    \/ CloseRoundClick(g)
    \/ SetCorrectClick(g)
    \/ ApplyScoresClick(g)
    \/ SelectRound(g)

StoreStep(k) ==
    \/ NextIndexNo(k)
    \/ InsertRound(k)
    \/ OpenRoundExec(k)
    \/ CloseRoundExec(k)
    \/ SetCorrectExec(k)
    \/ ApplyScoresExec(k)
    \/ AnswerExec(k)
    \/ LookupExec(k)

PlayerStep(p) ==
    \/ AnswerClick(p)
    \/ Reload(p)

Next ==
    \/ \E g \in GMs \cap scn.clients : GMStep(g)
    \/ \E k \in BagToSet(calls) : StoreStep(k)
    \/ \E p \in Players \cap scn.clients : PlayerStep(p)
    \/ \E c \in scn.clients : RefreshRounds(c)

\* the scenarios of Spec: racing requests of one GM session within a round;
\* a sequence of rounds; several GM sessions; double clicks across two rounds
Scenarios ==
    { Scenario({"g1", "p1"}, 1, MaxCalls, {"A"}),
      Scenario({"g1", "p1"}, 2, 1, {"A"}),
      Scenario({"g1", "g2", "p1"}, 1, 1, {"A"}),
      Scenario({"g1"}, 2, 2, {"A"}) }

Init == scn \in Scenarios /\ InitState

Spec == Init /\ [][Next]_vars

\* SpecReveal: the reveal of one closed round with three stored answers, on
\* pages that have just been loaded: the GM chooses the correct choice and
\* starts the reveal (a double click included), the clients fetch rounds and
\* ranks in any order, the steppers tick, the participant may reload.
ClosedRound == [id |-> 1, index_no |-> 1, status |-> "closed", correct_choice |-> Null,
                reveal_started |-> FALSE, opened_at |-> 0]

AnswerRows(chs) ==
    << [round_id |-> 1, player_id |-> "p1", choice |-> chs[1]],
       [round_id |-> 1, player_id |-> "p2", choice |-> chs[2]],
       [round_id |-> 1, player_id |-> "p3", choice |-> chs[3]] >>

RevealAnswers == { AnswerRows(<<"A", "A", "A">>), AnswerRows(<<"A", "B", "A">>) }

\* racing requests with one correct choice; a correct choice that changes
\* during the reveal; the GM page alone with racing requests and both choices;
\* two GM sessions
RevealScenarios ==
    { Scenario({"g1", "p1"}, 1, MaxCalls, {"A"}),
      Scenario({"g1", "p1"}, 1, 1, {"A", "B"}),
      Scenario({"g1"}, 1, MaxCalls, {"A", "B"}),
      Scenario({"g1", "g2"}, 1, 1, {"A"}) }

InitReveal ==
    /\ scn \in RevealScenarios
    /\ dbRounds = <<ClosedRound>>
    /\ dbAnswers \in RevealAnswers
    /\ total_score = [p \in Players |-> 0]
    /\ calls = EmptyBag
    /\ pendRounds = [c \in Clients |-> Active(c)]
    /\ InitLocal

GMRevealStep(g) ==
    \/ SetCorrectClick(g)
    \/ StartRevealClick(g)

StoreRevealStep(k) ==
    \/ SetCorrectExec(k)
    \/ StartRevealExec(k)
    \/ LookupExec(k)

ClientRevealStep(c) ==
    \/ RefreshRounds(c)
    \/ RefreshRanks(c)
    \/ Tick(c)
    \/ OrphanTick(c)

NextReveal ==
    \/ \E g \in GMs \cap scn.clients : GMRevealStep(g)
    \/ \E k \in BagToSet(calls) : StoreRevealStep(k)
    \/ \E c \in scn.clients : ClientRevealStep(c)
    \/ \E p \in Players \cap scn.clients : Reload(p)

SpecReveal == InitReveal /\ [][NextReveal]_vars

\* SpecRound: one round from ready to its reveal, on pages that have just been
\* loaded: the GM opens, closes, chooses the correct choice and starts the
\* reveal with racing requests, the participant answers, the clients fetch
\* rounds and ranks in any order and the steppers tick.
ReadyRound == [ClosedRound EXCEPT !.status = "ready", !.opened_at = -1]

RoundScenarios == { Scenario({"g1", "p1"}, 1, MaxCalls, {"A"}) }

InitRound ==
    /\ scn \in RoundScenarios
    /\ dbRounds = <<ReadyRound>>
    /\ dbAnswers = <<>>
    /\ total_score = [p \in Players |-> 0]
    /\ calls = EmptyBag
    /\ pendRounds = [c \in Clients |-> Active(c)]
    /\ InitLocal

GMRoundStep(g) ==
    \/ OpenRoundClick(g)
    \/ CloseRoundClick(g)
    \/ SetCorrectClick(g)
    \/ StartRevealClick(g)

StoreRoundStep(k) ==
    \/ OpenRoundExec(k)
    \/ CloseRoundExec(k)
    \/ SetCorrectExec(k)
    \/ StartRevealExec(k)
    \/ AnswerExec(k)
    \/ LookupExec(k)

NextRound ==
    \/ \E g \in GMs \cap scn.clients : GMRoundStep(g)
    \/ \E k \in BagToSet(calls) : StoreRoundStep(k)
    \/ \E c \in scn.clients : ClientRevealStep(c)
    \/ \E p \in Players \cap scn.clients : AnswerClick(p)

SpecRound == InitRound /\ [][NextRound]_vars

\* SpecReload: a participant whose answer to the open round is stored loads
\* the page, reloads it at any moment and clicks choices; the GM closes the
\* round.
OpenRound == [ClosedRound EXCEPT !.status = "open"]

ReloadScenarios == { Scenario({"g1", "p1"}, 1, MaxCalls, {"A"}) }

InitReload ==
    /\ scn \in ReloadScenarios
    /\ dbRounds = <<OpenRound>>
    /\ \E ch \in ChoiceInputs :
          dbAnswers = <<[round_id |-> 1, player_id |-> "p1", choice |-> ch]>>
    /\ total_score = [p \in Players |-> 0]
    /\ calls = EmptyBag
    /\ pendRounds = [c \in Clients |-> Active(c)]
    /\ InitLocal

StoreReloadStep(k) ==
    \/ CloseRoundExec(k)
    \/ AnswerExec(k)
    \/ LookupExec(k)

NextReload ==
    \/ \E g \in GMs \cap scn.clients : CloseRoundClick(g)
    \/ \E k \in BagToSet(calls) : StoreReloadStep(k)
    \/ \E c \in scn.clients : RefreshRounds(c)
    \/ \E p \in Players \cap scn.clients : PlayerStep(p)

SpecReload == InitReload /\ [][NextReload]_vars

\* SpecFail: one round from its creation to its scoring, reveal included, in
\* a room whose store answers up to MaxFails requests with an error.
MaxFails == 1

\* a handler of the form "if (error) return alert(...)": nothing else changes
Refused(k, shown) ==
    /\ Fails(k, shown)
    /\ UNCHANGED <<storeVars, coreVars, isScoring, myAnswerChoice, prevRoundId,
                   revealVars, applied, rpcIssued>>

\* nextIndexNo throws on the error; newRound does not catch it
NextIndexNoFail(k) == k.op = "nextIndexNo" /\ Refused(k, FALSE)

\* newRound: if (error) return alert('ラウンド作成エラー')
InsertRoundFail(k) == k.op = "insertRound" /\ Refused(k, TRUE)

\* openRound: if (error) return alert('受付開始エラー')
OpenRoundFail(k) == k.op = "openRound" /\ Refused(k, TRUE)

\* closeRound: if (error) return alert('締切エラー')
CloseRoundFail(k) == k.op = "closeRound" /\ Refused(k, TRUE)

\* setCorrect: if (error) return alert('正解設定エラー')
SetCorrectFail(k) == k.op = "setCorrect" /\ Refused(k, TRUE)

\* startReveal: if (error) return alert('発表開始エラー'), before startRevealLocal
StartRevealFail(k) == k.op = "startReveal" /\ Refused(k, TRUE)

\* answer: the insert fails for a reason other than the uniqueness
\* constraint; if (error) { if (error.code === '23505') return; return; }
AnswerFail(k) == k.op = "answer" /\ Refused(k, FALSE)

StoreFailStep(k) ==
    \/ NextIndexNoFail(k)
    \/ InsertRoundFail(k)
    \/ OpenRoundFail(k)
    \/ CloseRoundFail(k)
    \/ SetCorrectFail(k)
    \/ ApplyScoresFail(k)
    \/ StartRevealFail(k)
    \/ AnswerFail(k)

FailScenarios == {WithFailures(Scenario({"g1", "p1"}, 1, 1, {"A"}), MaxFails)}

InitFail == scn \in FailScenarios /\ InitState

\* one round and one GM session: no other round to select, no interval
\* that is replaced
GMFailStep(g) ==
    \/ NewRoundClick(g)
    \/ OpenRoundClick(g)
    \/ CloseRoundClick(g)
    \/ SetCorrectClick(g)
    \/ StartRevealClick(g)
    \/ ApplyScoresClick(g)

ClientFailStep(c) ==
    \/ RefreshRounds(c)
    \/ RefreshRanks(c)
    \/ Tick(c)

NextFail ==
    \/ \E g \in GMs \cap scn.clients : GMFailStep(g)
    \/ \E k \in BagToSet(calls) : StoreStep(k) \/ StartRevealExec(k)
    \/ \E k \in BagToSet(calls) : StoreFailStep(k)
    \/ \E p \in Players \cap scn.clients : AnswerClick(p)
    \/ \E c \in scn.clients : ClientFailStep(c)

SpecFail == InitFail /\ [][NextFail]_vars

\* SpecWeights: the scoring of one closed round with three stored answers
\* under every combination of weights that the GM enters from WeightInputs,
\* and the reset of the scores.
WeightInputs == {-100, 0, 100}

\* the number inputs of the weights: onChange sets Number(e.target.value)
SetWeight(g) ==
    /\ PanelShown(current[g])
    /\ \E i \in 1..3 : \E v \in WeightInputs :
          weights' = [weights EXCEPT ![g][i] = v]
    /\ UNCHANGED <<scn, alerts, failed, fetches, storeVars, calls, coreVars,
                   isScoring, myAnswerChoice, prevRoundId, revealVars, applied,
                   rpcIssued>>

\* resetScores up to the rpc (the confirm dialog accepted)
ResetScoresClick(g) ==
    /\ InFlight < scn.calls
    /\ Issue(Call(g, "resetScores", 0, Null, 0, FALSE))
    /\ UNCHANGED <<quietVars, storeVars, coreVars, isScoring, myAnswerChoice,
                   prevRoundId, revealVars, applied, rpcIssued>>

\* rpc reset_scores: every total of the room is zero; then refreshPlayers
ResetScoresExec(k) ==
    /\ k.op = "resetScores"
    /\ total_score' = [p \in Players |-> 0]
    /\ Done(k)
    /\ UNCHANGED <<quietVars, dbRounds, dbAnswers, coreVars, isScoring,
                   myAnswerChoice, prevRoundId, revealVars, applied, rpcIssued>>

WeightScenarios == {Scenario({"g1"}, 1, 1, {"A"})}

InitWeights ==
    /\ scn \in WeightScenarios
    /\ dbRounds = <<ClosedRound>>
    /\ dbAnswers \in RevealAnswers
    /\ total_score = [p \in Players |-> 0]
    /\ calls = EmptyBag
    /\ pendRounds = [c \in Clients |-> Active(c)]
    /\ InitLocal

GMWeightsStep(g) ==
    \/ SetWeight(g)
    \/ SetCorrectClick(g)
    \/ ApplyScoresClick(g)
    \/ ResetScoresClick(g)

StoreWeightsStep(k) ==
    \/ SetCorrectExec(k)
    \/ ApplyScoresExec(k)
    \/ ResetScoresExec(k)

NextWeights ==
    \/ \E g \in GMs \cap scn.clients : GMWeightsStep(g)
    \/ \E k \in BagToSet(calls) : StoreWeightsStep(k)
    \/ \E c \in scn.clients : RefreshRounds(c)

SpecWeights == InitWeights /\ [][NextWeights]_vars

\* SpecCorrect: the handler setCorrect on a GM page whose current round is in
\* any of the four statuses.  The page renders the buttons that call it only
\* under PanelShown; here the handler is applied wherever its own check
\* passes.
ScoredRound == [ClosedRound EXCEPT !.status = "scored", !.correct_choice = "A"]

CorrectRounds ==
    { ReadyRound, OpenRound, ClosedRound, ScoredRound,
      [ClosedRound EXCEPT !.correct_choice = "A", !.reveal_started = TRUE] }

CorrectScenarios == {Scenario({"g1"}, 1, MaxCalls, {"A", "B"})}

InitCorrect ==
    /\ scn \in CorrectScenarios
    /\ \E r \in CorrectRounds :
          /\ dbRounds = <<r>>
          /\ dbAnswers \in (IF r.status = "ready" THEN {<<>>} ELSE RevealAnswers)
          /\ total_score = [p \in Players |->
                IF r.status = "scored" /\ p = "p1" THEN W1 ELSE 0]
    /\ calls = EmptyBag
    /\ pendRounds = [c \in Clients |-> Active(c)]
    /\ InitLocal

NextCorrect ==
    \/ \E g \in GMs \cap scn.clients : SetCorrectCall(g)
    \/ \E k \in BagToSet(calls) : SetCorrectExec(k)
    \/ \E c \in scn.clients : RefreshRounds(c)

SpecCorrect == InitCorrect /\ [][NextCorrect]_vars

\* SpecFetch: one round from ready to closed with its correct choice, on a
\* GM page and a participant page whose rounds queries are executed by the
\* store at one step and delivered at a later one, up to MaxFetch results on
\* their way to a client at once, delivered in any order.
MaxFetch == 2

\* refreshRounds up to its await: the store executes the query
FetchRounds(c) ==
    /\ pendRounds[c]
    /\ Cardinality(fetches[c]) < MaxFetch
    /\ \E list \in RoundsQuery :
          fetches' = [fetches EXCEPT ![c] = @ \cup {list}]
    /\ pendRounds' = [pendRounds EXCEPT ![c] = FALSE]
    /\ UNCHANGED <<scn, alerts, failed, weights, storeVars, calls, rounds, current,
                   ranks, pendRanks, isScoring, myAnswerChoice, prevRoundId,
                   revealVars, applied, rpcIssued>>

\* the result of a query arrives: the rest of refreshRounds
DeliverRounds(c) ==
    \E list \in fetches[c] :
        /\ ApplyRounds(c, list)
        /\ fetches' = [fetches EXCEPT ![c] = @ \ {list}]
        /\ pendRounds' = [pendRounds EXCEPT ![c] = @ \/ Resubscribes(c, list)]

FetchScenarios == {Scenario({"g1", "p1"}, 1, 1, {"A"})}

InitFetch ==
    /\ scn \in FetchScenarios
    /\ dbRounds = <<ReadyRound>>
    /\ dbAnswers = <<>>
    /\ total_score = [p \in Players |-> 0]
    /\ calls = EmptyBag
    /\ pendRounds = [c \in Clients |-> Active(c)]
    /\ InitLocal

GMFetchStep(g) ==
    \/ OpenRoundClick(g)
    \/ CloseRoundClick(g)
    \/ SetCorrectClick(g)

StoreFetchStep(k) ==
    \/ OpenRoundExec(k)
    \/ CloseRoundExec(k)
    \/ SetCorrectExec(k)
    \/ LookupExec(k)

NextFetch ==
    \/ \E g \in GMs \cap scn.clients : GMFetchStep(g)
    \/ \E k \in BagToSet(calls) : StoreFetchStep(k)
    \/ \E c \in scn.clients : FetchRounds(c)
    \/ \E c \in scn.clients : DeliverRounds(c)

SpecFetch == InitFetch /\ [][NextFetch]_vars

\* SpecReview: a room with a scored first round and a closed second round,
\* both with stored answers, on a GM page and a participant page that have
\* just been loaded: the GM looks at either round, changes the correct
\* choice, and the rounds and ranks are fetched in any order.
ReviewRounds ==
    << ScoredRound,
       [ClosedRound EXCEPT !.id = 2, !.index_no = 2, !.correct_choice = "A",
                           !.opened_at = 3] >>

ReviewAnswers ==
    AnswerRows(<<"A", "B", "A">>)
        \o << [round_id |-> 2, player_id |-> "p2", choice |-> "A"],
               [round_id |-> 2, player_id |-> "p1", choice |-> "B"] >>

ReviewScenarios == {Scenario({"g1", "p1"}, 2, MaxCalls, {"A", "B"})}

InitReview ==
    /\ scn \in ReviewScenarios
    /\ dbRounds = ReviewRounds
    /\ dbAnswers = ReviewAnswers
    /\ total_score = [p \in Players |-> IF p = "p1" THEN W1 ELSE IF p = "p3" THEN W2 ELSE 0]
    /\ calls = EmptyBag
    /\ pendRounds = [c \in Clients |-> Active(c)]
    /\ InitLocal

GMReviewStep(g) ==
    \/ SelectRound(g)
    \/ SetCorrectClick(g)

StoreReviewStep(k) ==
    \/ SetCorrectExec(k)
    \/ LookupExec(k)

ClientReviewStep(c) ==
    \/ RefreshRounds(c)
    \/ RefreshRanks(c)

NextReview ==
    \/ \E g \in GMs \cap scn.clients : GMReviewStep(g)
    \/ \E k \in BagToSet(calls) : StoreReviewStep(k)
    \/ \E c \in scn.clients : ClientReviewStep(c)

SpecReview == InitReview /\ [][NextReview]_vars

\* SpecThrow: the scoring of one closed round with three stored answers when
\* the scoring call may return an error or be rejected with an exception.

\* the awaited rpc rejects: applyScores has no try, so the handler ends at the
\* await, before setIsScoring(false) and before the alert
ApplyScoresThrow(k) ==
    /\ k.op = "applyScores"
    /\ rpcIssued' = [rpcIssued EXCEPT ![k.c][k.rid] = @ - 1]
    /\ Fails(k, FALSE)
    /\ UNCHANGED <<storeVars, coreVars, isScoring, myAnswerChoice, prevRoundId,
                   revealVars, applied>>

ThrowScenarios == {WithFailures(Scenario({"g1"}, 1, MaxCalls, {"A", "B"}), MaxFails)}

InitThrow ==
    /\ scn \in ThrowScenarios
    /\ dbRounds = <<ClosedRound>>
    /\ dbAnswers \in RevealAnswers
    /\ total_score = [p \in Players |-> 0]
    /\ calls = EmptyBag
    /\ pendRounds = [c \in Clients |-> Active(c)]
    /\ InitLocal

GMThrowStep(g) ==
    \/ SetCorrectClick(g)
    \/ ApplyScoresClick(g)

StoreThrowStep(k) ==
    \/ SetCorrectExec(k)
    \/ ApplyScoresExec(k)
    \/ ApplyScoresFail(k)
    \/ ApplyScoresThrow(k)

NextThrow ==
    \/ \E g \in GMs \cap scn.clients : GMThrowStep(g)
    \/ \E k \in BagToSet(calls) : StoreThrowStep(k)
    \/ \E c \in scn.clients : RefreshRounds(c)

SpecThrow == InitThrow /\ [][NextThrow]_vars

\* SpecSelect: the selection rule of refreshRounds on its inputs: a GM page
\* holding any selection (none, a round of the room, a round that is gone)
\* fetches any list of up to MaxList rounds, equal index_no included.
MaxList == 3

SelectRow(i, idx, st) == [id |-> i, index_no |-> idx, status |-> st,
                          correct_choice |-> Null, reveal_started |-> FALSE,
                          opened_at |-> 0]

SelectLists ==
    UNION { { [i \in 1..n |-> SelectRow(i, idx[i], st[i])] :
                idx \in {f \in [1..n -> 1..MaxList] :
                            \A i, j \in 1..n : i < j => f[i] <= f[j]},
                st \in [1..n -> {"open", "scored"}] } : n \in 0..MaxList }

SelectPrevs ==
    {NoRound} \cup {Fetched(SelectRow(i, i, "open")) : i \in 1..(MaxList + 1)}

InitSelect ==
    /\ scn = Scenario({"g1"}, MaxList, 1, {"A"})
    /\ dbRounds \in SelectLists
    /\ dbAnswers = <<>>
    /\ total_score = [p \in Players |-> 0]
    /\ calls = EmptyBag
    /\ rounds = [c \in Clients |-> <<>>]
    /\ \E prev \in SelectPrevs :
          current = [c \in Clients |-> IF c = "g1" THEN prev ELSE NoRound]
    /\ ranks = [c \in Clients |-> <<>>]
    /\ pendRounds = [c \in Clients |-> Active(c)]
    /\ pendRanks = [c \in Clients |-> {}]
    /\ isScoring = [g \in GMs |-> FALSE]
    /\ weights = [g \in GMs |-> <<W1, W2, WOther>>]
    /\ fetches = [c \in Clients |-> {}]
    /\ myAnswerChoice = [p \in Players |-> Null]
    /\ prevRoundId = [p \in Players |-> 0]
    /\ revealActive = [c \in Clients |-> FALSE]
    /\ revealShown = [c \in Clients |-> 0]
    /\ revealTimer = [c \in Clients |-> NoTimer]
    /\ orphanTimers = [c \in Clients |-> {}]
    /\ applied = [r \in RoundIds |-> 0]
    /\ rpcIssued = [g \in GMs |-> [r \in RoundIds |-> 0]]
    /\ alerts = [c \in Clients |-> 0]
    /\ failed = EmptyBag

NextSelect == \E c \in scn.clients : RefreshRounds(c)

SpecSelect == InitSelect /\ [][NextSelect]_vars

\* ------------------------------------------------- following the latest round
\* A GM session and a participant in a room that has just been created: the
\* GM creates rounds (a second click before the first has returned included)
\* and opens them, the participant answers. Every request in flight is
\* eventually answered by the store and every refresh a page was notified of
\* is eventually delivered; the clicks of the users are not forced.
LatestScenarios == { Scenario({"g1", "p1"}, 2, 2, {"A"}) }

InitLatest == scn \in LatestScenarios /\ InitState

GMLatestStep(g) ==
    \/ NewRoundClick(g)
    \/ OpenRoundClick(g)

StoreLatestStep(k) ==
    \/ NextIndexNo(k)
    \/ InsertRound(k)
    \/ OpenRoundExec(k)
    \/ AnswerExec(k)
    \/ LookupExec(k)

ClientLatestStep(c) ==
    \/ RefreshRounds(c)
    \/ RefreshRanks(c)

StoreAnswers == \E k \in BagToSet(calls) : StoreLatestStep(k)

NextLatest ==
    \/ \E g \in GMs \cap scn.clients : GMLatestStep(g)
    \/ StoreAnswers
    \/ \E p \in Players \cap scn.clients : AnswerClick(p)
    \/ \E c \in scn.clients : ClientLatestStep(c)

SpecLatest ==
    /\ InitLatest
    /\ [][NextLatest]_vars
    /\ WF_vars(StoreAnswers)
    /\ \A c \in Clients : WF_vars(ClientLatestStep(c))

\* ------------------------------------------------------------------ claims
StatusRank(st) ==
    CASE st = "ready" -> 0 [] st = "open" -> 1 [] st = "closed" -> 2 [] st = "scored" -> 3

\* C1: the status of every round in the store only moves forward along
\* ready -> open -> closed -> scored; it never moves backward and a scored
\* round keeps its status.
C1_StatusOnlyForward ==
    [][\A r \in 1..Len(dbRounds) :
          StatusRank(dbRounds'[r].status) >= StatusRank(dbRounds[r].status)]_vars

AnswersUnique ==
    \A i, j \in 1..Len(dbAnswers) :
        (/\ dbAnswers[i].round_id = dbAnswers[j].round_id
         /\ dbAnswers[i].player_id = dbAnswers[j].player_id) => i = j

RowsKept == \A i \in 1..Len(dbAnswers) :
    i <= Len(dbAnswers') /\ dbAnswers'[i] = dbAnswers[i]

SecondSubmitAbsorbed ==
    \A k \in BagToSet(calls) :
        (AnswerExec(k) /\ HasAnswer(k.rid, k.c)) =>
            (dbAnswers' = dbAnswers /\ myAnswerChoice' = myAnswerChoice)

\* C2: the store holds at most one answer row per (round, participant), a
\* stored row never changes, and a second submit for a pair that has a row
\* changes neither the stored rows nor the participant's pinned choice.
C2_OneAnswerPerPair ==
    []AnswersUnique /\ [][RowsKept /\ SecondSubmitAbsorbed]_vars

\* a second submit with another choice is in flight for a participant whose
\* first choice is stored and pinned
C2_Witness ==
    \E k \in BagToSet(calls) :
        /\ k.op = "answer" /\ ~ k.b
        /\ HasAnswer(k.rid, k.c)
        /\ StoredChoice(k.rid, k.c) # k.ch
        /\ current[k.c].id = k.rid
        /\ myAnswerChoice[k.c] = StoredChoice(k.rid, k.c)

\* the row of the room's latest round (highest index_no)
LatestScored ==
    \E r \in 1..Len(dbRounds) :
        /\ \A q \in 1..Len(dbRounds) : dbRounds[q].index_no <= dbRounds[r].index_no
        /\ dbRounds[r].status = "scored"

\* C3: a round is created only if the room has no round or its latest round
\* is scored.
C3_NewRoundOnlyAfterScored ==
    [][Len(dbRounds') > Len(dbRounds) => (Len(dbRounds) = 0 \/ LatestScored)]_vars

\* C4: the points of a round are awarded at most once: no participant holds
\* more than one first-place award for every round that has been scored.
C4_AwardedAtMostOnce ==
    \A p \in Players :
        total_score[p] <= W1 * Cardinality({r \in RoundIds : applied[r] >= 1})

\* C5: a GM session whose current round has a correct choice and shows the
\* status scored issues no scoring call: applyScores is refused locally.
C5_ScoredRefusedLocally ==
    \A g \in GMs :
        (current[g].correct_choice # Null /\ current[g].status = "scored")
            => ~ ENABLED ApplyScoresClick(g)

\* a session that has issued the scoring call of its current round and now
\* sees the round scored, with room for another request
C5_Witness ==
    \E g \in GMs :
        /\ Active(g)
        /\ current[g].correct_choice # Null /\ current[g].status = "scored"
        /\ rpcIssued[g][current[g].id] = 1
        /\ ~ isScoring[g]
        /\ InFlight < scn.calls

\* C6: one GM session issues the scoring call of a round at most once, failed
\* calls not counted.
C6_OneScoringCallPerSession ==
    \A g \in GMs : \A r \in RoundIds : rpcIssued[g][r] <= 1

\* C7: an answer row is inserted only while the status of its round in the
\* store is open.
C7_InsertOnlyWhileOpen ==
    [][Len(dbAnswers') > Len(dbAnswers) =>
          dbRounds[dbAnswers'[Len(dbAnswers')].round_id].status = "open"]_vars

\* C8: on every client whose local current round does not have reveal_started,
\* no ranking entry is visible, whatever the reveal flag, count and timer are.
C8_HiddenBeforeReveal ==
    \A c \in Clients : ~ current[c].reveal_started => VisibleCount(c) = 0

\* the GM page after startRevealLocal and before the round row arrives: the
\* reveal is active with a count of 1 or more over a list that has entries
C8_Witness ==
    \E c \in Clients :
        /\ Active(c)
        /\ current[c].correct_choice # Null /\ ~ current[c].reveal_started
        /\ revealActive[c] /\ revealShown[c] >= 1
        /\ Len(RevealList(c)) >= 1

\* a step within one reveal run of client c
SameRun(c) ==
    /\ current[c].id # 0 /\ current'[c].id = current[c].id
    /\ current[c].reveal_started /\ current'[c].reveal_started
    /\ revealActive[c] /\ revealActive'[c]

\* C9: within one reveal run of a client the number of visible entries never
\* decreases from one step to the next.
C9_VisibleNeverDecreases ==
    [][\A c \in Clients : SameRun(c) => VisibleCount(c)' >= VisibleCount(c)]_vars

\* C10: on a client that has seen reveal_started for a round with K >= 1
\* entries, once its stepper has stopped and nothing is left to fetch, the
\* count has reached K and all K entries are visible.
C10_RevealReachesAll ==
    \A c \in Clients :
        (/\ Active(c)
         /\ current[c].reveal_started /\ revealActive[c]
         /\ revealTimer[c].state # "live" /\ orphanTimers[c] = {}
         /\ ~ pendRounds[c] /\ pendRanks[c] = {}
         /\ Len(RevealList(c)) >= 1)
        => VisibleCount(c) = Len(RevealList(c))

\* client c has nothing left to fetch and no request in flight
Settled(c) ==
    /\ ~ pendRounds[c] /\ pendRanks[c] = {}
    /\ \A k \in BagToSet(calls) : k.c # c

\* C11: every client, GM pages included, whose local current round shows
\* reveal_started with at least one correct entry has started its stepper
\* once the refreshes it was notified of have arrived.
C11_EveryClientStartsStepper ==
    \A c \in Clients :
        (/\ Active(c)
         /\ current[c].reveal_started
         /\ Len(RevealList(c)) >= 1
         /\ Settled(c))
        => revealActive[c]

\* C12: reveal_started of a round is written only when the round has a
\* correct choice and at least one correct-answer entry in the ranking.
C12_StartRevealNeedsEntries ==
    [][\A r \in 1..Len(dbRounds) :
          (dbRounds'[r].reveal_started /\ ~ dbRounds[r].reveal_started)
              => (dbRounds[r].correct_choice # Null /\ Len(RankView(r)) >= 1)]_vars

\* C13: reveal_started of a round in the store changes only from false to
\* true; no operation sets it back to false.
C13_RevealStartedMonotone ==
    [][\A r \in 1..Len(dbRounds) :
          dbRounds[r].reveal_started => dbRounds'[r].reveal_started]_vars

\* client c moves to another current round whose reveal has not started, or
\* observes reveal_started of its current round turn false
RevealEnds(c) ==
    \/ current'[c].id # current[c].id /\ ~ current'[c].reveal_started
    \/ current[c].reveal_started /\ ~ current'[c].reveal_started

\* C14: when a client's current round id changes or its reveal_started is
\* observed to be false, the reveal is inactive, the count is 0 and no
\* stepping timer is left running.
C14_RevealResets ==
    [][\A c \in Clients :
          (Active(c) /\ RevealEnds(c)) =>
              /\ ~ revealActive'[c]
              /\ revealShown'[c] = 0
              /\ revealTimer'[c].state # "live"
              /\ orphanTimers'[c] = {}]_vars

\* participant p has fetched the rounds and has no request in flight
Idle(p) == ~ pendRounds[p] /\ \A k \in BagToSet(calls) : k.c # p

PinIsStored ==
    \A p \in Players :
        (Active(p) /\ HasAnswer(1, p)) =>
            /\ myAnswerChoice[p] \in {Null, StoredChoice(1, p)}
            /\ (Idle(p) /\ current[p].id = 1) => myAnswerChoice[p] = StoredChoice(1, p)

\* C15: a participant who reloads with a stored answer ends up with the
\* stored choice pinned; no submit after the reload, also one made before the
\* lookup has returned, changes a stored row or pins another choice.
C15_ReloadKeepsPin == []PinIsStored /\ [][RowsKept]_vars

\* the lookup of a freshly loaded page has pinned the stored choice while a
\* submit of another choice, made before the lookup returned, is in flight
C15_Witness ==
    \E k \in BagToSet(calls) :
        /\ k.op = "answer" /\ ~ k.b
        /\ \A b \in BagToSet(calls) : b.op # "lookup"
        /\ HasAnswer(1, k.c)
        /\ k.ch # StoredChoice(1, k.c)
        /\ myAnswerChoice[k.c] = StoredChoice(1, k.c)

\* the selection the claim describes, for the selection prev, the fetched
\* list and the resulting current round new
IsLatest(list, new) ==
    /\ \E i \in 1..Len(list) : list[i] = new
    /\ \A i \in 1..Len(list) : list[i].index_no <= new.index_no

SelectionRule(prev, list, new) ==
    IF Len(list) = 0 THEN new = NoRound
    ELSE IF prev = NoRound \/ ~ \E i \in 1..Len(list) : list[i].id = prev.id
    THEN IsLatest(list, new)
    ELSE \E i \in 1..Len(list) :
            /\ list[i].id = prev.id
            /\ IF /\ list[i].status = "scored"
                  /\ \E j \in 1..Len(list) : list[j].index_no > list[i].index_no
               THEN IsLatest(list, new)
               ELSE new = list[i]

\* C16: after each rounds refresh the current round is none for an empty
\* list, the latest round when nothing or a missing round was selected or
\* when the selected round is scored and a round of higher index exists, and
\* otherwise the fetched copy of the selected round.
C16_SelectionRule ==
    [][\A c \in Clients :
          RefreshRounds(c) => SelectionRule(current[c], rounds'[c], current'[c])]_vars

\* a refresh has kept an earlier round selected although the fetched list
\* holds a later one
C16_Witness ==
    \E c \in Clients :
        /\ Active(c) /\ ~ pendRounds[c]
        /\ Len(rounds[c]) >= 2
        /\ \E i \in 1..(Len(rounds[c]) - 1) :
              current[c] = rounds[c][i] /\ rounds[c][i].status # "scored"
        /\ rounds[c][Len(rounds[c])].index_no > current[c].index_no

\* the scoring call that executes in this step and applies to round r
ScoringApplies(r) ==
    \E k \in BagToSet(calls) :
        /\ k.op = "applyScores" /\ k.rid = r
        /\ ApplyScoresExec(k)
        /\ applied'[r] = applied[r] + 1

BecomesScored(r) ==
    /\ r \in 1..Len(dbRounds')
    /\ dbRounds'[r].status = "scored"
    /\ r \in 1..Len(dbRounds) => dbRounds[r].status # "scored"

\* C17: the stored status of a round becomes scored only in the step at which
\* a scoring call for that round succeeds and applies; no other operation
\* (creating, opening, closing a round, setting the correct choice, a
\* participant's answer, a reload) produces it.
C17_ScoredOnlyByScoring ==
    [][\A r \in RoundIds : BecomesScored(r) => ScoringApplies(r)]_vars

\* a round is stored as scored while an earlier one is too: the scoring
\* call has produced the status twice
C17_Witness ==
    /\ Len(dbRounds) = 2
    /\ dbRounds[1].status = "scored" /\ dbRounds[2].status = "scored"
    /\ applied[1] >= 1 /\ applied[2] >= 1

\* the step in which the scoring call k returns an error
ScoringFailure(k) ==
    /\ ApplyScoresFail(k)
    /\ failed' = failed (+) SetToBag({"applyScores"})

\* a manual click on the score button of g is handled: applyScores passes
\* its early returns and sends the call
RetryAccepted(g) ==
    (/\ Active(g)
     /\ PanelShown(current[g])
     /\ current[g].correct_choice # Null
     /\ current[g].status # "scored"
     /\ \A k \in CallsOf("applyScores") : k.c # g
     /\ InFlight < scn.calls
     /\ rpcIssued[g][current[g].id] < MaxRpc)
        => ENABLED ApplyScoresClick(g)

\* C18: when the scoring call fails, the stored rounds and the scores are as
\* before, the page shows an alert reporting the error, and the handler
\* sends no further request by itself; a later click on the score button of
\* a round that is still not scored is accepted and sends the call again.
C18_ScoringFailure ==
    /\ [][\A k \in BagToSet(calls) :
             ScoringFailure(k) =>
                /\ dbRounds' = dbRounds
                /\ total_score' = total_score
                /\ alerts'[k.c] = alerts[k.c] + 1
                /\ calls' = calls (-) SetToBag({k})
                /\ pendRounds' = pendRounds]_vars
    /\ [](\A g \in GMs : RetryAccepted(g))

\* after a failed scoring call the GM has clicked again: the call for the
\* same round, still not scored, is in flight a second time
C18_Witness ==
    \E k \in CallsOf("applyScores") :
        /\ "applyScores" \in BagToSet(failed)
        /\ alerts[k.c] >= 1
        /\ dbRounds[k.rid].status # "scored"
        /\ applied[k.rid] = 0

\* C19: under every combination of weights the GM can enter, the score of
\* every participant is a non-negative integer, and a step lowers a score
\* only if it is the reset of the scores.
C19_ScoreNeverDecreases ==
    /\ [](\A p \in Players : total_score[p] \in Nat)
    /\ [][\A p \in Players :
             total_score'[p] < total_score[p] =>
                \E k \in CallsOf("resetScores") : ResetScoresExec(k)]_vars

\* the store writes a click starts (nextIndexNo is a read)
WriteOps == {"insertRound", "openRound", "closeRound", "setCorrect", "applyScores",
             "startReveal", "answer"}

\* C20: whenever a store write started by a click fails for a reason other
\* than the uniqueness constraint of the answers, the page that sent it shows
\* an alert reporting the error and sends nothing again by itself.
C20_FailureSurfaced ==
    [][\A k \in BagToSet(calls) :
          (k.op \in WriteOps /\ StoreFailStep(k)) =>
              /\ alerts'[k.c] = alerts[k.c] + 1
              /\ calls' = calls (-) SetToBag({k})]_vars

\* the stored round k.rid after the step is the round before it with only
\* correct_choice replaced, and no other stored value has changed
OnlyCorrectWritten(k) ==
    /\ Len(dbRounds') = Len(dbRounds)
    /\ \A r \in 1..Len(dbRounds) :
          /\ dbRounds'[r].status = dbRounds[r].status
          /\ dbRounds'[r].opened_at = dbRounds[r].opened_at
          /\ dbRounds'[r].reveal_started = dbRounds[r].reveal_started
          /\ dbRounds'[r].index_no = dbRounds[r].index_no
          /\ dbRounds'[r].correct_choice =
                IF r = k.rid THEN k.ch ELSE dbRounds[r].correct_choice
    /\ dbAnswers' = dbAnswers
    /\ total_score' = total_score

C22_PinMatchesStore ==
    \A p \in Players :
        myAnswerChoice[p] # Null =>
            /\ current[p].id # 0
            /\ HasAnswer(current[p].id, p)
            /\ StoredChoice(current[p].id, p) = myAnswerChoice[p]

\* no write is in flight and client c has no rounds query left to send or
\* to receive
Quiescent(c) ==
    /\ calls = EmptyBag
    /\ ~ pendRounds[c]
    /\ fetches[c] = {}

\* C23: once the writes have ceased and every re-fetch a client was notified
\* of has completed, in whatever order the results arrived, the rounds list
\* of the client is the list the store holds and its current round carries
\* the stored status, correct_choice and reveal_started.
C23_ViewsConverge ==
    \A c \in Clients :
        (Active(c) /\ Quiescent(c)) =>
            /\ rounds[c] \in RoundsQuery
            /\ IF Len(dbRounds) = 0 THEN current[c] = NoRound
               ELSE /\ current[c].id \in 1..Len(dbRounds)
                    /\ current[c] = Fetched(dbRounds[current[c].id])

\* C24: on a client with no fetch outstanding and no request in flight,
\* every row of the local ranked list belongs to the local current round.
C24_RanksOfCurrentRound ==
    \A c \in Clients :
        (Active(c) /\ Settled(c)) =>
            \A i \in 1..Len(ranks[c]) : ranks[c][i].round_id = current[c].id

\* C25: isScoring of a GM page is set only while a scoring call of that page
\* is outstanding: it is false again after every completion of the call,
\* whether the call succeeded, returned an error or threw.
C25_ScoringFlagCleared ==
    \A g \in GMs :
        isScoring[g] => \E k \in CallsOf("applyScores") : k.c = g

\* C26: opened_at of a round is unset while the round is ready and, once
\* set, is never overwritten: no step changes a stamp that is set.
C26_OpenedAtStampedOnce ==
    /\ [](\A r \in 1..Len(dbRounds) :
            dbRounds[r].status = "ready" => dbRounds[r].opened_at = -1)
    /\ [][\A r \in 1..Len(dbRounds) :
             dbRounds[r].opened_at # -1 =>
                dbRounds'[r].opened_at = dbRounds[r].opened_at]_vars

\* C27: the first round of a room has index_no 1 and every round has an
\* index_no strictly greater than that of every round created before it, so
\* the indices are pairwise distinct (the rows of dbRounds are in the order
\* of their creation).
C27_IndexStrictlyIncreasing ==
    /\ Len(dbRounds) > 0 => dbRounds[1].index_no = 1
    /\ \A i, j \in 1..Len(dbRounds) :
          i < j => dbRounds[i].index_no < dbRounds[j].index_no

\* C28: every stored round that is scored has a correct choice; a scoring
\* call is sent only for a round whose stored correct choice is set; and no
\* step unsets a correct choice that is set.
C28_ScoredHasCorrectChoice ==
    /\ [](\A r \in 1..Len(dbRounds) :
            dbRounds[r].status = "scored" => dbRounds[r].correct_choice # Null)
    /\ [](\A k \in CallsOf("applyScores") : dbRounds[k.rid].correct_choice # Null)
    /\ [][\A r \in 1..Len(dbRounds) :
             dbRounds[r].correct_choice # Null => dbRounds'[r].correct_choice # Null]_vars

\* a round has been scored with its correct choice and the first-ranked
\* participant has received the award
C28_Witness ==
    /\ Len(dbRounds) >= 1
    /\ dbRounds[1].status = "scored"
    /\ dbRounds[1].correct_choice = "A"
    /\ total_score["p1"] >= W1

\* C29: on each client no stepping interval runs that the client's timer
\* handle does not refer to, so at most one interval runs (the one the handle
\* refers to) and every running interval can still be cancelled.
C29_SingleRevealTimer ==
    \A c \in Clients : orphanTimers[c] = {}

\* the store holds a round of higher index than the participant's current one
Superseded(p) ==
    /\ Active(p)
    /\ current[p] # NoRound
    /\ \E r \in 1..Len(dbRounds) : dbRounds[r].index_no > current[p].index_no

\* the participant's current round is the round of highest index in the store
OnLatest(p) ==
    /\ current[p] # NoRound
    /\ \A r \in 1..Len(dbRounds) : dbRounds[r].index_no <= current[p].index_no

\* C30: a participant whose current round has been superseded by a round of
\* higher index is eventually on the latest round, given that every request
\* is answered and every rounds refresh is delivered.
C30_ParticipantFollowsLatest ==
    \A p \in Players : Superseded(p) ~> OnLatest(p)

====
